---- MODULE Spec2Model ----
(***************************************************************************)
(* Access control of open-crm: the role gate (role_required), the          *)
(* ownership scope applied by the page views and the JSON API, and the     *)
(* handlers that read and write Customers, Contacts, Leads, Opportunities  *)
(* and Documents; the Flask-Admin console, the admin panel and the login   *)
(* view, which read and write Users, UserRoles and sessions; Activities.   *)
(*                                                                         *)
(* The tables are sequences of rows in primary-key order.  A row keeps the  *)
(* columns that enter an access decision (id, assigned_user_id, and the    *)
(* customer_id of a Contact or Document) and, for a Lead, an Opportunity   *)
(* and a Contact, the one payload column (title, name, first_name) that    *)
(* stands for what the update handler rewrites.  The other columns (among  *)
(* them Lead.customer_id, Opportunity.customer_id and lead_id, and         *)
(* Document.uploaded_by) enter no decision and are left out.  A request    *)
(* is one atomic step: a handler runs to completion inside one database    *)
(* session, except for the handlers taken apart into the steps between     *)
(* which another worker's request can commit.  The variable resp holds     *)
(* the answer to the last request that finished.                           *)
(***************************************************************************)
EXTENDS Integers, Sequences, FiniteSets, TLC

VARIABLES user, user_role, session, customer, contact, lead, opportunity,
          document, activity, inflight, resp

vars == <<user, user_role, session, customer, contact, lead, opportunity,
          document, activity, inflight, resp>>

\* Users, the names of the UserRole rows, and the users who hold a session
accounts == <<user, user_role, session>>

tables == <<customer, contact, lead, opportunity, document, activity>>

(***************************************************************************)
(* Bounds of the model.                                                    *)
(***************************************************************************)
MaxCustomers == 2
MaxContacts == 1
MaxLeads == 1
MaxOpportunities == 1
MaxDocuments == 2

\* payload values a create or update request may carry
Titles == {"a", "b"}

(***************************************************************************)
(* models.py: RoleEnum, and the users init_db.py creates.                  *)
(***************************************************************************)
ADMIN == "admin"
MANAGER == "manager"
EMPLOYEE == "employee"

RoleEnum == {ADMIN, MANAGER, EMPLOYEE}

\* a role name outside RoleEnum (init_db creates no UserRole row for it)
UnknownRole == "guest"

\* NULL of a nullable column; current_user of a request without a session
None == 0
Anonymous == 0

\* a User row: username and email are unique columns, role is the name of
\* the UserRole row that role_id refers to
UserRow(username, email, role, is_active) ==
    [username |-> username, email |-> email, role |-> role,
     is_active |-> is_active, last_login |-> None]

init_database == (1 :> UserRow("admin", "admin@crm.com", ADMIN, TRUE)) @@
                 (2 :> UserRow("manager", "manager@crm.com", MANAGER, TRUE)) @@
                 (3 :> UserRow("employee", "employee@crm.com", EMPLOYEE, TRUE))

UserIds == DOMAIN init_database

Principals == UserIds \cup {Anonymous}

\* the server's workers; each serves one request at a time, in its own
\* request context and database session.  inflight[w] is the request worker
\* w is in the middle of, for the handlers modelled in more than one step.
Workers == {1, 2}

Idle == [pc |-> "idle"]

(***************************************************************************)
(* The principal: flask_login's current_user and the User properties.      *)
(***************************************************************************)
\* is_authenticated changed: every user load_user finds is authenticated
is_authenticated_any_loaded(p) == p \in DOMAIN user

\* load_user yields the User row of the session's user id whatever its
\* is_active column holds; is_authenticated of UserMixin answers is_active,
\* which User overrides with that column
is_authenticated(p) == p \in DOMAIN user /\ user[p].is_active

is_admin(p) == user[p].role = ADMIN

is_manager(p) == user[p].role = MANAGER

is_employee(p) == user[p].role = EMPLOYEE

\* @login_required: without a session the login manager redirects to login_view
login_required(p) == is_authenticated(p)

(***************************************************************************)
(* role_required: the decision of decorated_function on the role names    *)
(*   "login"     redirect to auth.login, the handler is not run            *)
(*   "dashboard" redirect to main.dashboard, the handler is not run        *)
(*   "run"       the handler f runs                                        *)
(***************************************************************************)
\* role_required changed: an administrator passes every gate
role_required_admin_implied(p, roles) ==
    IF ~is_authenticated(p) THEN "login"
    ELSE IF user[p].role \notin roles /\ user[p].role # "admin" THEN "dashboard"
    ELSE "run"

role_required(p, roles) ==
    IF ~is_authenticated(p) THEN "login"
    ELSE IF user[p].role \notin roles THEN "dashboard"
    ELSE "run"

ALL_ROLES == {ADMIN, MANAGER, EMPLOYEE}
\* the elevated roles changed: employees count among them
ELEVATED_with_employee == {ADMIN, MANAGER, EMPLOYEE}

ELEVATED == {ADMIN, MANAGER}
\* the administrator-only gate changed: managers pass it as well
ADMIN_ONLY_with_manager == {ADMIN, MANAGER}

ADMIN_ONLY == {ADMIN}

\* the answer to a request
Response(op, p, required, status, ran, target, body) ==
    [op |-> op, principal |-> p,
     role |-> IF is_authenticated(p) THEN user[p].role ELSE "none",
     required |-> required, status |-> status, ran |-> ran,
     target |-> target, body |-> body]

\* the answer of a handler stopped by @login_required or by role_required
Denied(op, p, required, target) ==
    Response(op, p, required,
             IF ~login_required(p) THEN "login" ELSE role_required(p, required),
             FALSE, target, <<>>)

\* both decorators let the request through to the handler
Admitted(p, required) ==
    login_required(p) /\ role_required(p, required) = "run"

Init ==
    /\ user = init_database
    /\ user_role = RoleEnum
    /\ session = UserIds
    /\ customer = <<>>
    /\ contact = <<>>
    /\ lead = <<>>
    /\ opportunity = <<>>
    /\ document = <<>>
    /\ activity = <<>>
    /\ inflight = [w \in Workers |-> Idle]
    /\ resp = Response("none", Anonymous, {}, "none", FALSE, None, <<>>)

(***************************************************************************)
(* The role gate on its own: a handler f wrapped by role_required,         *)
(* for every set of role names a route may pass.                           *)
(***************************************************************************)
RequiredSets == SUBSET (RoleEnum \cup {UnknownRole})

decorated_function(p, roles) ==
    /\ resp' = Response("decorated_function", p, roles,
                        role_required(p, roles),
                        role_required(p, roles) = "run", None, <<>>)
    /\ UNCHANGED <<accounts, tables, inflight>>

\* admin panel PUT /admin/users/<user_id> with a payload that carries "role"
update_user(p, user_id, role_name) ==
    IF ~Admitted(p, ADMIN_ONLY)
    THEN /\ resp' = Denied("update_user", p, ADMIN_ONLY, user_id)
         /\ UNCHANGED <<accounts, tables, inflight>>
    ELSE IF user_id \notin DOMAIN user
    THEN /\ resp' = Response("update_user", p, ADMIN_ONLY, "404", TRUE, user_id, <<>>)
         /\ UNCHANGED <<accounts, tables, inflight>>
    ELSE IF role_name \notin user_role
    THEN /\ resp' = Response("update_user", p, ADMIN_ONLY, "400", TRUE, user_id, <<>>)
         /\ UNCHANGED <<accounts, tables, inflight>>
    ELSE /\ user' = [user EXCEPT ![user_id].role = role_name]
         /\ resp' = Response("update_user", p, ADMIN_ONLY, "200", TRUE, user_id, <<>>)
         /\ UNCHANGED <<user_role, session, tables, inflight>>

GuardNext ==
    \/ \E p \in Principals, roles \in RequiredSets : decorated_function(p, roles)
    \/ \E p \in Principals, u \in UserIds \cup {4}, r \in RoleEnum \cup {UnknownRole} :
          update_user(p, u, r)

SpecGuard == Init /\ [][GuardNext]_vars

(***************************************************************************)
(* Queries.  Model.query.all() yields the rows in primary-key order;       *)
(* filter_by keeps the rows whose column equals the value (a NULL column   *)
(* equals no value).                                                       *)
(***************************************************************************)
filter_by_assigned_user_id(rows, uid) ==
    SelectSeq(rows, LAMBDA r : r.assigned_user_id = uid)

Ids(rows) == {rows[i].id : i \in DOMAIN rows}

\* Model.query.get(id): the row, which the caller knows to exist
get(rows, id) == CHOOSE r \in {rows[i] : i \in DOMAIN rows} : r.id = id

\* the rows with row id replaced by new
Replace(rows, id, new) ==
    [i \in DOMAIN rows |-> IF rows[i].id = id THEN new ELSE rows[i]]

Assignees == UserIds \cup {None}

\* the primary key of the next row: one more than the largest key in the table
NextId(rows) == IF rows = <<>> THEN 1 ELSE rows[Len(rows)].id + 1

(***************************************************************************)
(* main.py: the page views.  Each is @login_required and                   *)
(* @role_required(admin, manager, employee), then filters by role.         *)
(***************************************************************************)
\* customers_query changed: only the administrator sees every row
customers_query_admin_only(p) ==
    IF is_admin(p) THEN customer
    ELSE filter_by_assigned_user_id(customer, p)

customers_query(p) ==
    IF is_admin(p) \/ is_manager(p) THEN customer
    ELSE filter_by_assigned_user_id(customer, p)

\* leads_query changed: the filter by role is left out
leads_query_unscoped(p) == lead

leads_query(p) ==
    IF is_admin(p) \/ is_manager(p) THEN lead
    ELSE filter_by_assigned_user_id(lead, p)

opportunities_query(p) ==
    IF is_admin(p) \/ is_manager(p) THEN opportunity
    ELSE filter_by_assigned_user_id(opportunity, p)

\* a read-only handler behind @login_required and role_required(required)
Read(op, p, required, body) ==
    /\ resp' = IF Admitted(p, required)
               THEN Response(op, p, required, "200", TRUE, None, body)
               ELSE Denied(op, p, required, None)
    /\ UNCHANGED <<accounts, tables, inflight>>

\* a read-only handler behind @login_required alone
ReadAuthenticated(op, p, body) ==
    /\ resp' = IF login_required(p)
               THEN Response(op, p, {}, "200", TRUE, None, body)
               ELSE Response(op, p, {}, "login", FALSE, None, <<>>)
    /\ UNCHANGED <<accounts, tables, inflight>>

customers(p) == Read("customers", p, ALL_ROLES, customers_query(p))

leads(p) == Read("leads", p, ALL_ROLES, leads_query(p))

opportunities(p) == Read("opportunities", p, ALL_ROLES, opportunities_query(p))

\* the three counts the main dashboard shows
dashboard_counts ==
    [customer_count |-> Len(customer), lead_count |-> Len(lead),
     opportunity_count |-> Len(opportunity)]

dashboard(p) == ReadAuthenticated("dashboard", p, <<dashboard_counts>>)

(***************************************************************************)
(* api.py: the JSON listings and the dashboard statistics.                 *)
(***************************************************************************)
\* get_customers_query changed: the requester's own rows are listed first
get_customers_query_own_first(p) ==
    filter_by_assigned_user_id(customer, p)
        \o SelectSeq(customer, LAMBDA r : r.assigned_user_id # p /\
                                          (is_admin(p) \/ is_manager(p)))

get_customers_query(p) ==
    IF is_admin(p) \/ is_manager(p) THEN customer
    ELSE filter_by_assigned_user_id(customer, p)

get_customers(p) == ReadAuthenticated("get_customers", p, get_customers_query(p))

get_leads_query(p) == lead

get_leads(p) == ReadAuthenticated("get_leads", p, get_leads_query(p))

get_opportunities_query(p) == opportunity

get_opportunities(p) ==
    ReadAuthenticated("get_opportunities", p, get_opportunities_query(p))

dashboard_stats_counts(p) ==
    IF is_admin(p) \/ is_manager(p)
    THEN [customer_count |-> Len(customer), lead_count |-> Len(lead),
          opportunity_count |-> Len(opportunity)]
    ELSE [customer_count |-> Len(filter_by_assigned_user_id(customer, p)),
          lead_count |-> Len(filter_by_assigned_user_id(lead, p)),
          opportunity_count |-> Len(filter_by_assigned_user_id(opportunity, p))]

dashboard_stats(p) ==
    ReadAuthenticated("dashboard_stats", p, <<dashboard_stats_counts(p)>>)

(***************************************************************************)
(* api.py: create and update of Customers, Leads and Opportunities.        *)
(***************************************************************************)
create_customer(p, assigned_user_id) ==
    IF ~Admitted(p, ELEVATED)
    THEN /\ resp' = Denied("create_customer", p, ELEVATED, None)
         /\ UNCHANGED <<accounts, tables, inflight>>
    ELSE /\ NextId(customer) <= MaxCustomers
         /\ customer' = Append(customer, [id |-> NextId(customer),
                                          assigned_user_id |-> assigned_user_id])
         /\ resp' = Response("create_customer", p, ELEVATED, "201", TRUE,
                             NextId(customer), <<>>)
         /\ UNCHANGED <<accounts, contact, lead, opportunity, document, activity, inflight>>

update_customer(p, id, assigned_user_id) ==
    IF ~Admitted(p, ELEVATED)
    THEN /\ resp' = Denied("update_customer", p, ELEVATED, id)
         /\ UNCHANGED <<accounts, tables, inflight>>
    ELSE IF id \notin Ids(customer)
    THEN /\ resp' = Response("update_customer", p, ELEVATED, "404", TRUE, id, <<>>)
         /\ UNCHANGED <<accounts, tables, inflight>>
    ELSE /\ customer' = Replace(customer, id,
                [get(customer, id) EXCEPT !.assigned_user_id = assigned_user_id])
         /\ resp' = Response("update_customer", p, ELEVATED, "200", TRUE, id, <<>>)
         /\ UNCHANGED <<accounts, contact, lead, opportunity, document, activity, inflight>>

create_lead(p, title, assigned_user_id) ==
    IF ~Admitted(p, ALL_ROLES)
    THEN /\ resp' = Denied("create_lead", p, ALL_ROLES, None)
         /\ UNCHANGED <<accounts, tables, inflight>>
    ELSE /\ NextId(lead) <= MaxLeads
         /\ lead' = Append(lead, [id |-> NextId(lead), title |-> title,
                                  assigned_user_id |-> assigned_user_id])
         /\ resp' = Response("create_lead", p, ALL_ROLES, "201", TRUE,
                             NextId(lead), <<>>)
         /\ UNCHANGED <<accounts, customer, contact, opportunity, document, activity, inflight>>

update_lead(p, id, title) ==
    IF ~Admitted(p, ALL_ROLES)
    THEN /\ resp' = Denied("update_lead", p, ALL_ROLES, id)
         /\ UNCHANGED <<accounts, tables, inflight>>
    ELSE IF id \notin Ids(lead)
    THEN /\ resp' = Response("update_lead", p, ALL_ROLES, "404", TRUE, id, <<>>)
         /\ UNCHANGED <<accounts, tables, inflight>>
    ELSE /\ lead' = Replace(lead, id, [get(lead, id) EXCEPT !.title = title])
         /\ resp' = Response("update_lead", p, ALL_ROLES, "200", TRUE, id, <<>>)
         /\ UNCHANGED <<accounts, customer, contact, opportunity, document, activity, inflight>>

create_opportunity(p, name, assigned_user_id) ==
    IF ~Admitted(p, ALL_ROLES)
    THEN /\ resp' = Denied("create_opportunity", p, ALL_ROLES, None)
         /\ UNCHANGED <<accounts, tables, inflight>>
    ELSE /\ NextId(opportunity) <= MaxOpportunities
         /\ opportunity' = Append(opportunity,
                [id |-> NextId(opportunity), name |-> name,
                 assigned_user_id |-> assigned_user_id])
         /\ resp' = Response("create_opportunity", p, ALL_ROLES, "201", TRUE,
                             NextId(opportunity), <<>>)
         /\ UNCHANGED <<accounts, customer, contact, lead, document, activity, inflight>>

update_opportunity(p, id, name) ==
    IF ~Admitted(p, ALL_ROLES)
    THEN /\ resp' = Denied("update_opportunity", p, ALL_ROLES, id)
         /\ UNCHANGED <<accounts, tables, inflight>>
    ELSE IF id \notin Ids(opportunity)
    THEN /\ resp' = Response("update_opportunity", p, ALL_ROLES, "404", TRUE, id, <<>>)
         /\ UNCHANGED <<accounts, tables, inflight>>
    ELSE /\ opportunity' = Replace(opportunity, id,
                [get(opportunity, id) EXCEPT !.name = name])
         /\ resp' = Response("update_opportunity", p, ALL_ROLES, "200", TRUE, id, <<>>)
         /\ UNCHANGED <<accounts, customer, contact, lead, document, activity, inflight>>

RecordsNext ==
    \/ \E p \in Principals : customers(p)
    \/ \E p \in Principals : leads(p)
    \/ \E p \in Principals : opportunities(p)
    \/ \E p \in Principals : dashboard(p)
    \/ \E p \in Principals : get_customers(p)
    \/ \E p \in Principals : get_leads(p)
    \/ \E p \in Principals : get_opportunities(p)
    \/ \E p \in Principals : dashboard_stats(p)
    \/ \E p \in Principals, a \in Assignees : create_customer(p, a)
    \/ \E p \in Principals, id \in 1..MaxCustomers, a \in Assignees :
          update_customer(p, id, a)
    \/ \E p \in Principals, t \in Titles, a \in Assignees : create_lead(p, t, a)
    \/ \E p \in Principals, id \in 1..MaxLeads, t \in Titles : update_lead(p, id, t)
    \/ \E p \in Principals, t \in Titles, a \in Assignees : create_opportunity(p, t, a)
    \/ \E p \in Principals, id \in 1..MaxOpportunities, t \in Titles :
          update_opportunity(p, id, t)

SpecRecords == Init /\ [][RecordsNext]_vars

(***************************************************************************)
(* api.py: Contacts.  A Contact has no owner column; contact.customer is   *)
(* its parent Customer.                                                    *)
(***************************************************************************)
get_contacts_query(p) == contact

get_contacts(p) == ReadAuthenticated("get_contacts", p, get_contacts_query(p))

\* GET of one row by id: query.get_or_404(id), then the row is serialized
get_or_404(op, p, rows, id) ==
    /\ resp' = IF ~login_required(p)
               THEN Response(op, p, {}, "login", FALSE, id, <<>>)
               ELSE IF id \notin Ids(rows)
               THEN Response(op, p, {}, "404", TRUE, id, <<>>)
               ELSE Response(op, p, {}, "200", TRUE, id, <<get(rows, id)>>)
    /\ UNCHANGED <<accounts, tables, inflight>>

get_customer(p, id) == get_or_404("get_customer", p, customer, id)

get_contact(p, id) == get_or_404("get_contact", p, contact, id)

create_contact(p, first_name, customer_id) ==
    IF ~Admitted(p, ALL_ROLES)
    THEN /\ resp' = Denied("create_contact", p, ALL_ROLES, None)
         /\ UNCHANGED <<accounts, tables, inflight>>
    ELSE /\ NextId(contact) <= MaxContacts
         /\ contact' = Append(contact, [id |-> NextId(contact),
                                        first_name |-> first_name,
                                        customer_id |-> customer_id])
         /\ resp' = Response("create_contact", p, ALL_ROLES, "201", TRUE,
                             NextId(contact), <<>>)
         /\ UNCHANGED <<accounts, customer, lead, opportunity, document, activity, inflight>>

update_contact(p, id, first_name, customer_id) ==
    IF ~Admitted(p, ALL_ROLES)
    THEN /\ resp' = Denied("update_contact", p, ALL_ROLES, id)
         /\ UNCHANGED <<accounts, tables, inflight>>
    ELSE IF id \notin Ids(contact)
    THEN /\ resp' = Response("update_contact", p, ALL_ROLES, "404", TRUE, id, <<>>)
         /\ UNCHANGED <<accounts, tables, inflight>>
    ELSE /\ contact' = Replace(contact, id,
                [get(contact, id) EXCEPT !.first_name = first_name,
                                         !.customer_id = customer_id])
         /\ resp' = Response("update_contact", p, ALL_ROLES, "200", TRUE, id, <<>>)
         /\ UNCHANGED <<accounts, customer, lead, opportunity, document, activity, inflight>>

(***************************************************************************)
(* api.py: Documents.  document.customer is the Customer row that          *)
(* customer_id names, or nothing when customer_id is NULL.                 *)
(***************************************************************************)
has_customer(row) == row.customer_id \in Ids(customer)

\* the assigned_user_id of the parent Customer of a row that has one
customer_assigned_user_id(row) == get(customer, row.customer_id).assigned_user_id

Reverse(rows) == [i \in DOMAIN rows |-> rows[Len(rows) + 1 - i]]

upload_file(p, allowed, customer_id) ==
    IF ~Admitted(p, ALL_ROLES)
    THEN /\ resp' = Denied("upload_file", p, ALL_ROLES, None)
         /\ UNCHANGED <<accounts, tables, inflight>>
    ELSE IF ~allowed
    THEN /\ resp' = Response("upload_file", p, ALL_ROLES, "400", TRUE, None, <<>>)
         /\ UNCHANGED <<accounts, tables, inflight>>
    ELSE /\ NextId(document) <= MaxDocuments
         /\ document' = Append(document, [id |-> NextId(document),
                                          customer_id |-> customer_id])
         /\ resp' = Response("upload_file", p, ALL_ROLES, "201", TRUE,
                             NextId(document), <<>>)
         /\ UNCHANGED <<accounts, customer, contact, lead, opportunity, activity, inflight>>

\* list_documents_query changed: an outer join, rows without a Customer stay
list_documents_query_outer_join(p, customer_id) ==
    LET by_customer == IF customer_id # None
                       THEN SelectSeq(document, LAMBDA d : d.customer_id = customer_id)
                       ELSE document
        scoped == IF ~(is_admin(p) \/ is_manager(p))
                  THEN SelectSeq(by_customer, LAMBDA d :
                           has_customer(d) => customer_assigned_user_id(d) = p)
                  ELSE by_customer
    IN  Reverse(scoped)

\* customer_id: the optional query argument, None when absent
list_documents_query(p, customer_id) ==
    LET by_customer == IF customer_id # None
                       THEN SelectSeq(document, LAMBDA d : d.customer_id = customer_id)
                       ELSE document
        scoped == IF ~(is_admin(p) \/ is_manager(p))
                  THEN SelectSeq(by_customer, LAMBDA d :
                           has_customer(d) /\ customer_assigned_user_id(d) = p)
                  ELSE by_customer
    IN  Reverse(scoped)

list_documents(p, customer_id) ==
    /\ resp' = IF login_required(p)
               THEN Response("list_documents", p, {}, "200", TRUE, customer_id,
                             list_documents_query(p, customer_id))
               ELSE Response("list_documents", p, {}, "login", FALSE, customer_id, <<>>)
    /\ UNCHANGED <<accounts, tables, inflight>>

\* the ownership check shared by download_document and delete_document
document_permission_denied(p, doc) ==
    /\ has_customer(doc)
    /\ ~(is_admin(p) \/ is_manager(p))
    /\ customer_assigned_user_id(doc) # p

download_document(p, document_id) ==
    /\ resp' = IF ~login_required(p)
               THEN Response("download_document", p, {}, "login", FALSE, document_id, <<>>)
               ELSE IF document_id \notin Ids(document)
               THEN Response("download_document", p, {}, "404", TRUE, document_id, <<>>)
               ELSE IF document_permission_denied(p, get(document, document_id))
               THEN Response("download_document", p, {}, "403", TRUE, document_id, <<>>)
               ELSE Response("download_document", p, {}, "200", TRUE, document_id,
                             <<get(document, document_id)>>)
    /\ UNCHANGED <<accounts, tables, inflight>>

delete_document(p, document_id) ==
    IF ~Admitted(p, ALL_ROLES)
    THEN /\ resp' = Denied("delete_document", p, ALL_ROLES, document_id)
         /\ UNCHANGED <<accounts, tables, inflight>>
    ELSE IF document_id \notin Ids(document)
    THEN /\ resp' = Response("delete_document", p, ALL_ROLES, "404", TRUE,
                             document_id, <<>>)
         /\ UNCHANGED <<accounts, tables, inflight>>
    ELSE IF document_permission_denied(p, get(document, document_id))
    THEN /\ resp' = Response("delete_document", p, ALL_ROLES, "403", TRUE,
                             document_id, <<>>)
         /\ UNCHANGED <<accounts, tables, inflight>>
    ELSE /\ document' = SelectSeq(document, LAMBDA d : d.id # document_id)
         /\ resp' = Response("delete_document", p, ALL_ROLES, "200", TRUE,
                             document_id, <<get(document, document_id)>>)
         /\ UNCHANGED <<accounts, customer, contact, lead, opportunity, activity, inflight>>

DocsNext ==
    \/ \E p \in Principals : customers(p)
    \/ \E p \in Principals : get_customers(p)
    \/ \E p \in Principals, id \in 1..MaxCustomers : get_customer(p, id)
    \/ \E p \in Principals, a \in Assignees : create_customer(p, a)
    \/ \E p \in Principals, id \in 1..MaxCustomers, a \in Assignees :
          update_customer(p, id, a)
    \/ \E p \in Principals : get_contacts(p)
    \/ \E p \in Principals, id \in 1..MaxContacts : get_contact(p, id)
    \/ \E p \in Principals, n \in Titles, c \in Ids(customer) : create_contact(p, n, c)
    \/ \E p \in Principals, id \in 1..MaxContacts, n \in Titles, c \in Ids(customer) :
          update_contact(p, id, n, c)
    \/ \E p \in Principals, ok \in BOOLEAN, c \in Ids(customer) \cup {None} :
          upload_file(p, ok, c)
    \/ \E p \in Principals, c \in Ids(customer) \cup {None} : list_documents(p, c)
    \/ \E p \in Principals, id \in 1..MaxDocuments : download_document(p, id)
    \/ \E p \in Principals, id \in 1..MaxDocuments : delete_document(p, id)

SpecDocs == Init /\ [][DocsNext]_vars

(***************************************************************************)
(* Properties.                                                             *)
(***************************************************************************)
Rows(body) == {body[i] : i \in DOMAIN body}

\* C1: for an authenticated principal and any set of role names passed to
\* role_required, the wrapped handler runs if and only if the principal's
\* role name is in the set; no role, admin included, passes a set that
\* does not list it.
C1_HandlerRunsIffRoleListed ==
    (resp.op \in {"decorated_function", "update_user"} /\ resp.principal # Anonymous)
        => (resp.ran <=> resp.role \in resp.required)

\* an administrator was turned away by a gate that lists manager and employee only
C1_AdminNotListedDenied ==
    /\ resp.op = "decorated_function"
    /\ resp.role = ADMIN
    /\ resp.required = {MANAGER, EMPLOYEE}
    /\ resp.status = "dashboard"
    /\ ~resp.ran

\* C2: every Customer, Lead and Opportunity that the customers, leads and
\* opportunities pages and the customers API listing return to an employee
\* is assigned to that employee.
C2_EmployeeListingsOwned ==
    (resp.op \in {"customers", "leads", "opportunities", "get_customers"}
     /\ resp.role = EMPLOYEE)
        => \A r \in Rows(resp.body) : r.assigned_user_id = resp.principal

\* an employee's customers page returned the employee's customer and left out
\* the stored customer of another user
C2_OtherCustomerLeftOut ==
    /\ resp.op = "customers"
    /\ resp.role = EMPLOYEE
    /\ Len(resp.body) = 1
    /\ Len(customer) = 2
    /\ \E c \in Rows(customer) : c.assigned_user_id \in UserIds \ {resp.principal}

\* C3: to an administrator or manager the customers, leads and opportunities
\* pages and the customers API listing return every stored row of the kind.
C3_ElevatedListingsComplete ==
    resp.role \in {ADMIN, MANAGER} =>
        /\ resp.op \in {"customers", "get_customers"} => resp.body = customer
        /\ resp.op = "leads" => resp.body = lead
        /\ resp.op = "opportunities" => resp.body = opportunity

\* a manager's customers page returned two customers of two other owners
C3_ManagerSeesAllCustomers ==
    /\ resp.op = "customers"
    /\ resp.role = MANAGER
    /\ Len(resp.body) = 2
    /\ \A r \in Rows(resp.body) : r.assigned_user_id # resp.principal
    /\ resp.body[1].assigned_user_id # resp.body[2].assigned_user_id

\* C4: the JSON API listings of leads and of opportunities return to an
\* employee only the rows assigned to that employee.
C4_ApiLeadsOpportunitiesScoped ==
    (resp.op \in {"get_leads", "get_opportunities"} /\ resp.role = EMPLOYEE)
        => \A r \in Rows(resp.body) : r.assigned_user_id = resp.principal

\* C5: the contact listing and the document listing return to an employee
\* only the contacts and documents whose parent Customer is assigned to that
\* employee.
C5_ContactsDocumentsScopedByCustomer ==
    (resp.op \in {"get_contacts", "list_documents"} /\ resp.role = EMPLOYEE)
        => \A r \in Rows(resp.body) :
              has_customer(r) /\ customer_assigned_user_id(r) = resp.principal

\* C6: an employee's request for one Customer, or one Contact, by id returns
\* the row only when the Customer (for a Contact, its parent Customer) is
\* assigned to that employee.
C6_SingleReadOwned ==
    (resp.role = EMPLOYEE /\ resp.status = "200") =>
        /\ resp.op = "get_customer" =>
              resp.body[1].assigned_user_id = resp.principal
        /\ resp.op = "get_contact" =>
              /\ has_customer(resp.body[1])
              /\ customer_assigned_user_id(resp.body[1]) = resp.principal

\* C7: every Lead, Opportunity or Contact that an employee's update request
\* changes is owned by that employee when the update is made (a Lead or an
\* Opportunity by assigned_user_id, a Contact through its parent Customer).
C7_EmployeeUpdatesOwnRows ==
    [][(resp'.role = EMPLOYEE /\ resp'.status = "200") =>
          /\ (resp'.op = "update_lead" /\ lead' # lead) =>
                get(lead, resp'.target).assigned_user_id = resp'.principal
          /\ (resp'.op = "update_opportunity" /\ opportunity' # opportunity) =>
                get(opportunity, resp'.target).assigned_user_id = resp'.principal
          /\ (resp'.op = "update_contact" /\ contact' # contact) =>
                /\ has_customer(get(contact, resp'.target))
                /\ customer_assigned_user_id(get(contact, resp'.target))
                       = resp'.principal]_vars

\* C8: for the same principal and the same stored rows, the leads and
\* opportunities pages show the rows the API listings return, and the main
\* dashboard shows the counts the API dashboard statistics return.
C8_PagesAgreeWithApi ==
    \A p \in DOMAIN user :
        /\ leads_query(p) = get_leads_query(p)
        /\ opportunities_query(p) = get_opportunities_query(p)
        /\ dashboard_counts = dashboard_stats_counts(p)

\* C9: no Customer without an assigned user appears in the customers page or
\* the customers API listing of an employee, and no Document without a
\* Customer (or whose Customer has no assigned user) appears in the document
\* listing of an employee.
C9_UnownedExcluded ==
    resp.role = EMPLOYEE =>
        /\ resp.op \in {"customers", "get_customers"} =>
              \A r \in Rows(resp.body) : r.assigned_user_id # None
        /\ resp.op = "list_documents" =>
              \A r \in Rows(resp.body) :
                  /\ r.customer_id # None
                  /\ customer_assigned_user_id(r) # None

\* an employee's unfiltered document listing returned the employee's document
\* and left out a stored document that has no Customer
C9_UnownedDocumentLeftOut ==
    /\ resp.op = "list_documents"
    /\ resp.role = EMPLOYEE
    /\ resp.target = None
    /\ Len(resp.body) = 1
    /\ \E d \in Rows(document) : d.customer_id = None
    /\ \E c \in Rows(customer) : c.assigned_user_id = None

\* C10: a download or delete request by an employee for a Document that has
\* no Customer is denied, and the Document stays stored.
C10_UnownedDocumentDenied ==
    (resp.op \in {"download_document", "delete_document"}
     /\ resp.role = EMPLOYEE /\ resp.status = "200")
        => resp.body[1].customer_id # None

(***************************************************************************)
(* The Flask-Admin console (app/admin.py).  A console request names a view *)
(* class; Flask-Admin asks the view's is_accessible before it runs the     *)
(* view and answers with inaccessible_callback when that is false.         *)
(***************************************************************************)
SecureViews == {"UserAdmin", "CustomerAdmin", "ContactAdmin", "LeadAdmin",
                "OpportunityAdmin", "ActivityAdmin", "DocumentAdmin"}

AdminOnlyViews == {"RoleAdmin"}

\* SecureModelView.is_accessible changed: any authenticated user may enter
SecureModelView_is_accessible_any_role(p) == is_authenticated(p)

SecureModelView_is_accessible(p) ==
    is_authenticated(p) /\ (is_admin(p) \/ is_manager(p))

\* AdminOnlyModelView.is_accessible changed: managers are let in as well
AdminOnlyModelView_is_accessible_elevated(p) ==
    is_authenticated(p) /\ (is_admin(p) \/ is_manager(p))

AdminOnlyModelView_is_accessible(p) == is_authenticated(p) /\ is_admin(p)

\* inaccessible_callback changed: every denial is sent to the login page
inaccessible_callback_login_only(p) == "login"

\* the same body in SecureModelView and AdminOnlyModelView
inaccessible_callback(p) ==
    IF ~is_authenticated(p) THEN "login" ELSE "dashboard"

is_accessible(p, view) ==
    IF view \in AdminOnlyViews THEN AdminOnlyModelView_is_accessible(p)
    ELSE SecureModelView_is_accessible(p)

\* the answer of a console view that is_accessible refused
Inaccessible(op, p, target) ==
    Response(op, p, {}, inaccessible_callback(p), FALSE, target, <<>>)

\* GET /admin/: SecureAdminIndexView.index
index(p) ==
    /\ resp' = IF ~is_authenticated(p)
               THEN Response("index", p, {}, "login", FALSE, None, <<>>)
               ELSE IF ~(is_admin(p) \/ is_manager(p))
               THEN Response("index", p, {}, "dashboard", FALSE, None, <<>>)
               ELSE Response("index", p, {}, "200", TRUE, None, <<>>)
    /\ UNCHANGED <<accounts, tables, inflight>>

\* the list page of a model view
index_view(p, view) ==
    /\ resp' = IF ~is_accessible(p, view) THEN Inaccessible(view, p, None)
               ELSE Response(view, p, {}, "200", TRUE, None, <<>>)
    /\ UNCHANGED <<accounts, tables, inflight>>

\* the names a role form or a JSON payload may carry
RoleNames == RoleEnum \cup {UnknownRole}

\* UserAdmin edit form posted with a choice of the role select field; the
\* other form columns are posted back as they were.  Answers: "saved" is the
\* redirect after the commit, "list" the redirect for a record that does
\* not exist, "invalid" the form shown again with an error.
UserAdmin_edit_view(p, user_id, role_name) ==
    IF ~is_accessible(p, "UserAdmin")
    THEN /\ resp' = Inaccessible("UserAdmin.edit_view", p, user_id)
         /\ UNCHANGED <<accounts, tables, inflight>>
    ELSE IF user_id \notin DOMAIN user
    THEN /\ resp' = Response("UserAdmin.edit_view", p, {}, "list", TRUE, user_id, <<>>)
         /\ UNCHANGED <<accounts, tables, inflight>>
    ELSE IF role_name \notin user_role
    THEN /\ resp' = Response("UserAdmin.edit_view", p, {}, "invalid", TRUE, user_id, <<>>)
         /\ UNCHANGED <<accounts, tables, inflight>>
    ELSE /\ user' = [user EXCEPT ![user_id].role = role_name]
         /\ resp' = Response("UserAdmin.edit_view", p, {}, "saved", TRUE, user_id, <<>>)
         /\ UNCHANGED <<user_role, session, tables, inflight>>

\* RoleAdmin create form: name is a free text field, unique in the table
RoleAdmin_create_view(p, name) ==
    IF ~is_accessible(p, "RoleAdmin")
    THEN /\ resp' = Inaccessible("RoleAdmin.create_view", p, None)
         /\ UNCHANGED <<accounts, tables, inflight>>
    ELSE IF name \in user_role
    THEN /\ resp' = Response("RoleAdmin.create_view", p, {}, "invalid", TRUE, None, <<>>)
         /\ UNCHANGED <<accounts, tables, inflight>>
    ELSE /\ user_role' = user_role \cup {name}
         /\ resp' = Response("RoleAdmin.create_view", p, {}, "saved", TRUE, None, <<>>)
         /\ UNCHANGED <<user, session, tables, inflight>>

\* RoleAdmin edit form: the row named old gets the name new, and with it
\* every user whose role_id refers to that row
RoleAdmin_edit_view(p, old, new) ==
    IF ~is_accessible(p, "RoleAdmin")
    THEN /\ resp' = Inaccessible("RoleAdmin.edit_view", p, None)
         /\ UNCHANGED <<accounts, tables, inflight>>
    ELSE IF old \notin user_role
    THEN /\ resp' = Response("RoleAdmin.edit_view", p, {}, "list", TRUE, None, <<>>)
         /\ UNCHANGED <<accounts, tables, inflight>>
    ELSE IF new # old /\ new \in user_role
    THEN /\ resp' = Response("RoleAdmin.edit_view", p, {}, "invalid", TRUE, None, <<>>)
         /\ UNCHANGED <<accounts, tables, inflight>>
    ELSE /\ user_role' = (user_role \ {old}) \cup {new}
         /\ user' = [u \in DOMAIN user |->
                        IF user[u].role = old THEN [user[u] EXCEPT !.role = new]
                        ELSE user[u]]
         /\ resp' = Response("RoleAdmin.edit_view", p, {}, "saved", TRUE, None, <<>>)
         /\ UNCHANGED <<session, tables, inflight>>

ConsoleNext ==
    \/ \E p \in Principals : index(p)
    \/ \E p \in Principals, view \in SecureViews \cup AdminOnlyViews : index_view(p, view)
    \/ \E p \in Principals, u \in UserIds \cup {4}, r \in RoleNames :
          UserAdmin_edit_view(p, u, r)
    \/ \E p \in Principals, r \in RoleNames : RoleAdmin_create_view(p, r)
    \/ \E p \in Principals, old \in RoleNames, new \in RoleNames :
          RoleAdmin_edit_view(p, old, new)
    \/ \E p \in Principals, roles \in RequiredSets : decorated_function(p, roles)
    \/ \E p \in Principals, u \in UserIds \cup {4}, r \in RoleNames :
          update_user(p, u, r)

SpecConsole == Init /\ [][ConsoleNext]_vars

(***************************************************************************)
(* Properties of the console gate.                                         *)
(***************************************************************************)
\* the requests a SecureModelView answers
SecureOps == SecureViews \cup {"UserAdmin.edit_view"}

\* the requests RoleAdmin answers
RoleOps == {"RoleAdmin", "RoleAdmin.create_view", "RoleAdmin.edit_view"}

C12_RoleAdminAdministratorOnly ==
    /\ (resp.op \in RoleOps /\ resp.role = MANAGER)
          => (~resp.ran /\ resp.status = "dashboard")
    /\ (resp.op \in RoleOps /\ resp.ran) => resp.role = ADMIN
    /\ (resp.op \in {"index", "CustomerAdmin"} /\ resp.role = MANAGER)
          => resp.ran

C12_ManagerRefusedRoleForm ==
    /\ resp.op = "RoleAdmin.create_view"
    /\ resp.role = MANAGER
    /\ resp.status = "dashboard"

\* the requests answered by role_required or by a console view
GatedOps == SecureOps \cup RoleOps \cup {"index", "decorated_function", "update_user"}

Emails == {init_database[u].email : u \in UserIds} \cup {"nobody@crm.com"}

\* User.query.filter_by(email=...).first(): email is a unique column
filter_by_email(email) == {u \in DOMAIN user : user[u].email = email}

\* the is_active test of login changed: nobody is turned away
login_deactivated_unchecked(u) == FALSE

\* login: if not user.is_active
login_deactivated(u) == ~user[u].is_active

\* POST /auth/login with a valid form.  ran tells that a user was found and
\* the password matched; target is that user.  The step after the is_active
\* test reads the name datetime, which auth.py never imports: the NameError
\* is answered by handle_exception before commit and login_user are reached.
login(p, email, password_ok) ==
    LET found == filter_by_email(email)
        u == IF found = {} THEN None ELSE CHOOSE x \in found : TRUE
        checked == found # {} /\ password_ok
    IN  /\ resp' = IF is_authenticated(p)
                   THEN Response("login", p, {}, "dashboard", FALSE, None, <<>>)
                   ELSE IF ~checked
                   THEN Response("login", p, {}, "200", FALSE, u, <<>>)
                   ELSE IF login_deactivated(u)
                   THEN Response("login", p, {}, "login", TRUE, u, <<>>)
                   ELSE Response("login", p, {}, "500", TRUE, u, <<>>)
        /\ UNCHANGED <<accounts, tables, inflight>>

\* GET /auth/logout
logout(p) ==
    IF ~login_required(p)
    THEN /\ resp' = Response("logout", p, {}, "login", FALSE, None, <<>>)
         /\ UNCHANGED <<accounts, tables, inflight>>
    ELSE /\ session' = session \ {p}
         /\ resp' = Response("logout", p, {}, "login", TRUE, None, <<>>)
         /\ UNCHANGED <<user, user_role, tables, inflight>>

\* admin panel PATCH /admin/users/<user_id>/status with a payload that
\* carries is_active
update_user_status(p, user_id, is_active) ==
    IF ~Admitted(p, ADMIN_ONLY)
    THEN /\ resp' = Denied("update_user_status", p, ADMIN_ONLY, user_id)
         /\ UNCHANGED <<accounts, tables, inflight>>
    ELSE IF user_id \notin DOMAIN user
    THEN /\ resp' = Response("update_user_status", p, ADMIN_ONLY, "404", TRUE, user_id, <<>>)
         /\ UNCHANGED <<accounts, tables, inflight>>
    ELSE /\ user' = [user EXCEPT ![user_id].is_active = is_active]
         /\ resp' = Response("update_user_status", p, ADMIN_ONLY, "200", TRUE, user_id, <<>>)
         /\ UNCHANGED <<user_role, session, tables, inflight>>

\* the current_user of a request: a user who holds a session, or nobody
SessionPrincipals == session \cup {Anonymous}

SessionNext ==
    \/ \E p \in SessionPrincipals, e \in Emails, ok \in BOOLEAN : login(p, e, ok)
    \/ \E p \in SessionPrincipals : logout(p)
    \/ \E p \in SessionPrincipals, u \in UserIds \cup {4}, a \in BOOLEAN :
          update_user_status(p, u, a)
    \/ \E p \in SessionPrincipals, roles \in {ALL_ROLES, ELEVATED, ADMIN_ONLY} :
          decorated_function(p, roles)
    \/ \E p \in SessionPrincipals : customers(p)
    \/ \E p \in SessionPrincipals : get_customers(p)
    \/ \E p \in SessionPrincipals : index(p)
    \/ \E p \in SessionPrincipals : index_view(p, "CustomerAdmin")

SpecSession == Init /\ [][SessionNext]_vars

\* the requests behind @login_required, role_required or a console gate
ProtectedOps == {"decorated_function", "customers", "get_customers", "index",
                 "CustomerAdmin", "logout", "update_user_status"}

C14_DeactivatedLoginRefused ==
    [][ (/\ resp'.op = "login"
         /\ resp'.ran
         /\ ~user[resp'.target].is_active)
        => (/\ resp'.status = "login"
            /\ session' = session
            /\ user' = user) ]_vars

C14_DeactivatedLoginAttempt ==
    /\ resp.op = "login"
    /\ resp.ran
    /\ resp.status = "login"
    /\ ~user[resp.target].is_active
    /\ resp.target \notin session
    /\ user[resp.target].last_login = None

(***************************************************************************)
(* Properties of the role registry.                                        *)
(***************************************************************************)
\* C16: role_required with a set of required names that holds no name of
\* the registry (admin, manager, employee) lets no principal through, in
\* every state the console and the admin panel can reach.
C16_UnknownRequirementFailsClosed ==
    (resp.op = "decorated_function" /\ resp.required \cap RoleEnum = {})
        => ~resp.ran

\* C17: every UserRole row, and the role of every user, carries one of the
\* three registry names.
C17_RolesWithinRegistry ==
    /\ user_role \subseteq RoleEnum
    /\ \A u \in DOMAIN user : user[u].role \in RoleEnum

(***************************************************************************)
(* Creating users: /auth/register, the admin panel's create_user and the   *)
(* console's UserAdmin create form.                                        *)
(***************************************************************************)
MaxUsers == 4

\* values a form or a payload may carry: one taken by init_db, one free
Usernames == {"admin", "new"}
NewEmails == {"admin@crm.com", "new@crm.com"}

filter_by_username(username) == {u \in DOMAIN user : user[u].username = username}

\* the key of the next User row
NextUserId == Cardinality(DOMAIN user) + 1

\* db.session.add(User(...)); db.session.commit()
add_user(username, email, role, is_active) ==
    user' = user @@ (NextUserId :> UserRow(username, email, role, is_active))

\* POST /auth/register with a form whose fields are filled in and whose role
\* is one of the select field's choices.  After the commit the redirect is
\* built for the endpoint admin.user_list, which no blueprint defines: the
\* request ends in handle_exception with the user stored.
register(p, username, email, role) ==
    IF ~login_required(p)
    THEN /\ resp' = Response("register", p, {}, "login", FALSE, None, <<>>)
         /\ UNCHANGED <<accounts, tables, inflight>>
    ELSE IF ~is_admin(p)
    THEN /\ resp' = Response("register", p, {}, "dashboard", FALSE, None, <<>>)
         /\ UNCHANGED <<accounts, tables, inflight>>
    ELSE IF filter_by_username(username) # {} \/ filter_by_email(email) # {}
    THEN /\ resp' = Response("register", p, {}, "200", TRUE, None, <<>>)
         /\ UNCHANGED <<accounts, tables, inflight>>
    ELSE IF role \notin user_role
    THEN /\ resp' = Response("register", p, {}, "register", TRUE, None, <<>>)
         /\ UNCHANGED <<accounts, tables, inflight>>
    ELSE /\ NextUserId <= MaxUsers
         /\ add_user(username, email, role, TRUE)
         /\ resp' = Response("register", p, {}, "500", TRUE, NextUserId, <<>>)
         /\ UNCHANGED <<user_role, session, tables, inflight>>

\* admin panel POST /admin/users with every required field in the payload
create_user(p, username, email, role, is_active) ==
    IF ~Admitted(p, ADMIN_ONLY)
    THEN /\ resp' = Denied("create_user", p, ADMIN_ONLY, None)
         /\ UNCHANGED <<accounts, tables, inflight>>
    ELSE IF role \notin user_role
    THEN /\ resp' = Response("create_user", p, ADMIN_ONLY, "400", TRUE, None, <<>>)
         /\ UNCHANGED <<accounts, tables, inflight>>
    ELSE IF filter_by_username(username) # {} \/ filter_by_email(email) # {}
    THEN /\ resp' = Response("create_user", p, ADMIN_ONLY, "409", TRUE, None, <<>>)
         /\ UNCHANGED <<accounts, tables, inflight>>
    ELSE /\ NextUserId <= MaxUsers
         /\ add_user(username, email, role, is_active)
         /\ resp' = Response("create_user", p, ADMIN_ONLY, "201", TRUE, NextUserId, <<>>)
         /\ UNCHANGED <<user_role, session, tables, inflight>>

\* the User columns declared nullable=False that have no default
User_not_null == {"username", "email", "password_hash", "first_name",
                  "last_name", "role"}

\* UserAdmin.form_columns changed: the form also fills password_hash
UserAdmin_form_columns_with_password ==
    {"username", "email", "first_name", "last_name", "role", "is_active",
     "password_hash"}

UserAdmin_form_columns ==
    {"username", "email", "first_name", "last_name", "role", "is_active"}

\* UserAdmin create form: the new row gets the form columns and nothing
\* else (on_model_change finds no password in the form), so the INSERT
\* breaks the NOT NULL constraint of password_hash; Flask-Admin rolls back
\* and shows the form again.
UserAdmin_create_view(p, username, email, role) ==
    IF ~is_accessible(p, "UserAdmin")
    THEN /\ resp' = Inaccessible("UserAdmin.create_view", p, None)
         /\ UNCHANGED <<accounts, tables, inflight>>
    ELSE IF \/ role \notin user_role
            \/ ~(User_not_null \subseteq UserAdmin_form_columns)
            \/ filter_by_username(username) # {}
            \/ filter_by_email(email) # {}
    THEN /\ resp' = Response("UserAdmin.create_view", p, {}, "invalid", TRUE, None, <<>>)
         /\ UNCHANGED <<accounts, tables, inflight>>
    ELSE /\ NextUserId <= MaxUsers
         /\ add_user(username, email, role, TRUE)
         /\ resp' = Response("UserAdmin.create_view", p, {}, "saved", TRUE, NextUserId, <<>>)
         /\ UNCHANGED <<user_role, session, tables, inflight>>

UsersNext ==
    \/ \E p \in Principals, n \in Usernames, e \in NewEmails, r \in RoleEnum :
          register(p, n, e, r)
    \/ \E p \in Principals, n \in Usernames, e \in NewEmails, r \in RoleNames,
          a \in BOOLEAN : create_user(p, n, e, r, a)
    \/ \E p \in Principals, n \in Usernames, e \in NewEmails, r \in RoleNames :
          UserAdmin_create_view(p, n, e, r)
    \/ \E p \in Principals, u \in UserIds \cup {4}, r \in RoleNames :
          update_user(p, u, r)

SpecUsers == Init /\ [][UsersNext]_vars

\* C19: on every surface (register, create_user, the console's UserAdmin) a
\* user account is created only by a request of an administrator.
C19_OnlyAdministratorCreatesUsers ==
    [][ DOMAIN user' # DOMAIN user => resp'.role = ADMIN ]_vars

C19_ManagerConsoleCreateFails ==
    /\ resp.op = "UserAdmin.create_view"
    /\ resp.role = MANAGER
    /\ resp.ran
    /\ resp.status = "invalid"
    /\ DOMAIN user = UserIds

(***************************************************************************)
(* Deleting records (app/routes/api.py).  db.session.delete of a parent    *)
(* sets the foreign key of the rows in its relationships to NULL before    *)
(* the DELETE.  Of the columns kept in the rows, Contact.customer_id is     *)
(* NOT NULL and Document.customer_id is nullable; the Leads and             *)
(* Opportunities of the model are stored with no customer_id that names a  *)
(* stored Customer, and the Activities with no contact, lead or opportunity.*)
(***************************************************************************)
\* the rows without row id
Remove(rows, id) == SelectSeq(rows, LAMBDA r : r.id # id)

\* delete_customer.  With a Contact of the customer the flush fails on
\* Contact.customer_id and nothing is deleted.  Otherwise the row is gone at
\* the commit; the answer is built from the deleted row afterwards (it reads
\* customer.assigned_user) and is either the JSON message or the error page.
delete_customer(p, id, status) ==
    IF ~Admitted(p, ELEVATED)
    THEN /\ resp' = Denied("delete_customer", p, ELEVATED, id)
         /\ UNCHANGED <<accounts, tables, inflight>>
    ELSE IF id \notin Ids(customer)
    THEN /\ resp' = Response("delete_customer", p, ELEVATED, "404", TRUE, id, <<>>)
         /\ UNCHANGED <<accounts, tables, inflight>>
    ELSE IF \E i \in DOMAIN contact : contact[i].customer_id = id
    THEN /\ resp' = Response("delete_customer", p, ELEVATED, "500", TRUE, id, <<>>)
         /\ UNCHANGED <<accounts, tables, inflight>>
    ELSE /\ customer' = Remove(customer, id)
         /\ document' = [i \in DOMAIN document |->
                            IF document[i].customer_id = id
                            THEN [document[i] EXCEPT !.customer_id = None]
                            ELSE document[i]]
         /\ resp' = Response("delete_customer", p, ELEVATED, status, TRUE, id, <<>>)
         /\ UNCHANGED <<accounts, contact, lead, opportunity, activity, inflight>>

delete_contact(p, id) ==
    IF ~Admitted(p, ELEVATED)
    THEN /\ resp' = Denied("delete_contact", p, ELEVATED, id)
         /\ UNCHANGED <<accounts, tables, inflight>>
    ELSE IF id \notin Ids(contact)
    THEN /\ resp' = Response("delete_contact", p, ELEVATED, "404", TRUE, id, <<>>)
         /\ UNCHANGED <<accounts, tables, inflight>>
    ELSE /\ contact' = Remove(contact, id)
         /\ resp' = Response("delete_contact", p, ELEVATED, "200", TRUE, id, <<>>)
         /\ UNCHANGED <<accounts, customer, lead, opportunity, document, activity, inflight>>

delete_lead(p, id) ==
    IF ~Admitted(p, ELEVATED)
    THEN /\ resp' = Denied("delete_lead", p, ELEVATED, id)
         /\ UNCHANGED <<accounts, tables, inflight>>
    ELSE IF id \notin Ids(lead)
    THEN /\ resp' = Response("delete_lead", p, ELEVATED, "404", TRUE, id, <<>>)
         /\ UNCHANGED <<accounts, tables, inflight>>
    ELSE /\ lead' = Remove(lead, id)
         /\ resp' = Response("delete_lead", p, ELEVATED, "200", TRUE, id, <<>>)
         /\ UNCHANGED <<accounts, customer, contact, opportunity, document, activity, inflight>>

delete_opportunity(p, id) ==
    IF ~Admitted(p, ELEVATED)
    THEN /\ resp' = Denied("delete_opportunity", p, ELEVATED, id)
         /\ UNCHANGED <<accounts, tables, inflight>>
    ELSE IF id \notin Ids(opportunity)
    THEN /\ resp' = Response("delete_opportunity", p, ELEVATED, "404", TRUE, id, <<>>)
         /\ UNCHANGED <<accounts, tables, inflight>>
    ELSE /\ opportunity' = Remove(opportunity, id)
         /\ resp' = Response("delete_opportunity", p, ELEVATED, "200", TRUE, id, <<>>)
         /\ UNCHANGED <<accounts, customer, contact, lead, document, activity, inflight>>

\* the requests that create and delete records; a created row is assigned
\* to the employee
DeleteNext ==
    \/ \E p \in Principals, a \in {3} : create_customer(p, a)
    \/ \E p \in Principals, c \in 1..MaxCustomers : create_contact(p, "a", c)
    \/ \E p \in Principals, a \in {3} : create_lead(p, "a", a)
    \/ \E p \in Principals, a \in {3} : create_opportunity(p, "a", a)
    \/ \E p \in Principals, id \in 1..MaxCustomers, st \in {"200", "500"} :
          delete_customer(p, id, st)
    \/ \E p \in Principals, id \in 1..MaxContacts : delete_contact(p, id)
    \/ \E p \in Principals, id \in 1..MaxLeads : delete_lead(p, id)
    \/ \E p \in Principals, id \in 1..MaxOpportunities : delete_opportunity(p, id)

SpecDelete == Init /\ [][DeleteNext]_vars

\* the keys of the Customers, Contacts, Leads and Opportunities
RecordIds == <<Ids(customer), Ids(contact), Ids(lead), Ids(opportunity)>>

\* C18: a request takes a Customer, Contact, Lead or Opportunity out of its
\* table only when it is made by a manager or an administrator; a request
\* of an employee leaves every stored record of the four tables in place.
C18_DeleteNeedsElevatedRole ==
    [][ /\ (\E k \in 1..4 : ~(RecordIds[k] \subseteq RecordIds'[k]))
            => resp'.role \in {MANAGER, ADMIN}
        /\ resp'.role = EMPLOYEE
            => \A k \in 1..4 : RecordIds[k] \subseteq RecordIds'[k] ]_vars

C18_EmployeeDeleteRefused ==
    /\ resp.op = "delete_lead"
    /\ resp.role = EMPLOYEE
    /\ resp.status = "dashboard"
    /\ resp.target \in Ids(lead)

(***************************************************************************)
(* Activities (app/routes/api.py).  An Activity row keeps id, user_id and  *)
(* title.                                                                  *)
(***************************************************************************)
MaxActivities == 1

\* Activity.query.filter_by(user_id=current_user.id).all()
get_activities(p) ==
    ReadAuthenticated("get_activities", p,
                      SelectSeq(activity, LAMBDA a : a.user_id = p))

\* create_activity stores the row and returns nothing: after the commit the
\* request ends in handle_exception
create_activity(p, title) ==
    IF ~login_required(p)
    THEN /\ resp' = Response("create_activity", p, {}, "login", FALSE, None, <<>>)
         /\ UNCHANGED <<accounts, tables, inflight>>
    ELSE /\ NextId(activity) <= MaxActivities
         /\ activity' = Append(activity, [id |-> NextId(activity), user_id |-> p,
                                          title |-> title])
         /\ resp' = Response("create_activity", p, {}, "500", TRUE,
                             NextId(activity), <<>>)
         /\ UNCHANGED <<accounts, customer, contact, lead, opportunity, document, inflight>>

\* the permission test changed: the row's own user is not let through
activity_permission_denied_elevated_only(p, row) ==
    ~(is_admin(p) \/ is_manager(p))

\* update_activity, delete_activity: if not (is_admin or is_manager or
\* activity.user_id == current_user.id)
activity_permission_denied(p, row) ==
    ~(is_admin(p) \/ is_manager(p) \/ row.user_id = p)

update_activity(p, id, title) ==
    IF ~login_required(p)
    THEN /\ resp' = Response("update_activity", p, {}, "login", FALSE, id, <<>>)
         /\ UNCHANGED <<accounts, tables, inflight>>
    ELSE IF id \notin Ids(activity)
    THEN /\ resp' = Response("update_activity", p, {}, "404", TRUE, id, <<>>)
         /\ UNCHANGED <<accounts, tables, inflight>>
    ELSE IF activity_permission_denied(p, get(activity, id))
    THEN /\ resp' = Response("update_activity", p, {}, "403", TRUE, id, <<>>)
         /\ UNCHANGED <<accounts, tables, inflight>>
    ELSE /\ activity' = Replace(activity, id, [get(activity, id) EXCEPT !.title = title])
         /\ resp' = Response("update_activity", p, {}, "200", TRUE, id, <<>>)
         /\ UNCHANGED <<accounts, customer, contact, lead, opportunity, document, inflight>>

\* delete_activity changed: the row is deleted before the permission test
delete_activity_test_after_delete(p, id) ==
    IF ~login_required(p)
    THEN /\ resp' = Response("delete_activity", p, {}, "login", FALSE, id, <<>>)
         /\ UNCHANGED <<accounts, tables, inflight>>
    ELSE IF id \notin Ids(activity)
    THEN /\ resp' = Response("delete_activity", p, {}, "404", TRUE, id, <<>>)
         /\ UNCHANGED <<accounts, tables, inflight>>
    ELSE /\ activity' = Remove(activity, id)
         /\ resp' = IF activity_permission_denied(p, get(activity, id))
                    THEN Response("delete_activity", p, {}, "403", TRUE, id, <<>>)
                    ELSE Response("delete_activity", p, {}, "200", TRUE, id, <<>>)
         /\ UNCHANGED <<accounts, customer, contact, lead, opportunity, document, inflight>>

delete_activity(p, id) ==
    IF ~login_required(p)
    THEN /\ resp' = Response("delete_activity", p, {}, "login", FALSE, id, <<>>)
         /\ UNCHANGED <<accounts, tables, inflight>>
    ELSE IF id \notin Ids(activity)
    THEN /\ resp' = Response("delete_activity", p, {}, "404", TRUE, id, <<>>)
         /\ UNCHANGED <<accounts, tables, inflight>>
    ELSE IF activity_permission_denied(p, get(activity, id))
    THEN /\ resp' = Response("delete_activity", p, {}, "403", TRUE, id, <<>>)
         /\ UNCHANGED <<accounts, tables, inflight>>
    ELSE /\ activity' = Remove(activity, id)
         /\ resp' = Response("delete_activity", p, {}, "200", TRUE, id, <<>>)
         /\ UNCHANGED <<accounts, customer, contact, lead, opportunity, document, inflight>>

\* the requests a role gate or a permission test can refuse, over Customers
\* assigned to nobody or to the employee
DeniedNext ==
    \/ \E p \in Principals, a \in {None, 3} : create_customer(p, a)
    \/ \E p \in Principals, id \in 1..MaxCustomers, st \in {"200", "500"} :
          delete_customer(p, id, st)
    \/ \E p \in Principals, c \in 0..MaxCustomers : upload_file(p, TRUE, c)
    \/ \E p \in Principals, id \in 1..MaxDocuments : download_document(p, id)
    \/ \E p \in Principals, id \in 1..MaxDocuments : delete_document(p, id)
    \/ \E p \in Principals : get_activities(p)
    \/ \E p \in Principals, t \in Titles : create_activity(p, t)
    \/ \E p \in Principals, id \in 1..MaxActivities, t \in Titles :
          update_activity(p, id, t)
    \/ \E p \in Principals, id \in 1..MaxActivities : delete_activity(p, id)

SpecDenied == Init /\ [][DeniedNext]_vars

\* C20: a request refused by login_required, by role_required or by the
\* permission test of update_activity, delete_activity, download_document
\* or delete_document leaves every stored Customer, Contact, Lead,
\* Opportunity, Activity and Document as it was.
C20_DeniedRequestChangesNothing ==
    [][ resp'.status \in {"login", "dashboard", "403"}
        => (/\ customer' = customer /\ contact' = contact /\ lead' = lead
            /\ opportunity' = opportunity /\ activity' = activity
            /\ document' = document) ]_vars

C20_ForeignActivityDeleteRefused ==
    /\ resp.op = "delete_activity"
    /\ resp.role = EMPLOYEE
    /\ resp.status = "403"
    /\ resp.target \in Ids(activity)
    /\ get(activity, resp.target).user_id # resp.principal

(***************************************************************************)
(* The activity listings and the handlers that write Activities.           *)
(***************************************************************************)
\* GET /activities (main.py): the requester's activities, newest first
activities(p) ==
    ReadAuthenticated("activities", p,
                      Reverse(SelectSeq(activity, LAMBDA a : a.user_id = p)))

ActivityNext ==
    \/ \E p \in Principals : get_activities(p)
    \/ \E p \in Principals : activities(p)
    \/ \E p \in Principals, t \in Titles : create_activity(p, t)
    \/ \E p \in Principals, id \in 1..MaxActivities, t \in Titles :
          update_activity(p, id, t)
    \/ \E p \in Principals, id \in 1..MaxActivities : delete_activity(p, id)
    \/ \E p \in Principals, u \in UserIds, r \in RoleEnum : update_user(p, u, r)

SpecActivity == Init /\ [][ActivityNext]_vars

\* C22: for an administrator or a manager the API activity listing and the
\* activities page hold every stored activity.
C22_ElevatedActivityListingsComplete ==
    (resp.role \in {ADMIN, MANAGER} /\ resp.ran) =>
        /\ resp.op = "get_activities" => resp.body = activity
        /\ resp.op = "activities" => resp.body = Reverse(activity)

\* the requester of the answer r is an administrator, a manager or the
\* user the row belongs to
MayWriteActivity(r, row) ==
    r.role \in {ADMIN, MANAGER} \/ row.user_id = r.principal

\* C23: an update_activity or delete_activity request of an authenticated
\* requester for a stored Activity is carried out (200, a delete removes the
\* row) when the requester is an administrator, a manager or the row's
\* user, and is answered 403 with the row untouched otherwise; no stored
\* Activity changes or disappears in any other step.
C23_ActivityWrittenIffPermitted ==
    [][ /\ (/\ resp'.op \in {"update_activity", "delete_activity"}
            /\ resp'.role # "none"
            /\ resp'.target \in Ids(activity))
           => IF MayWriteActivity(resp', get(activity, resp'.target))
              THEN /\ resp'.status = "200"
                   /\ resp'.op = "delete_activity"
                         => resp'.target \notin Ids(activity')
              ELSE /\ resp'.status = "403"
                   /\ activity' = activity
        /\ (\E id \in Ids(activity) :
                id \notin Ids(activity') \/ get(activity', id) # get(activity, id))
           => /\ resp'.op \in {"update_activity", "delete_activity"}
              /\ MayWriteActivity(resp', get(activity, resp'.target)) ]_vars

C23_OwnActivityUpdated ==
    /\ resp.op = "update_activity"
    /\ resp.role = EMPLOYEE
    /\ resp.status = "200"
    /\ resp.target \in Ids(activity)
    /\ get(activity, resp.target).user_id = resp.principal
    /\ get(activity, resp.target).title = "b"

\* the number of stored records
RecordCount == Len(customer) + Len(contact) + Len(lead) + Len(opportunity)
               + Len(document) + Len(activity)

\* C30: a request that stores a new record is answered with a success
\* status, and a request answered with a 4xx or 5xx status has created,
\* changed and deleted no record.
C30_ResponseAgreesWithStore ==
    [][ /\ RecordCount' > RecordCount => resp'.status \in {"200", "201"}
        /\ resp'.status \in {"400", "403", "404", "409", "500"}
              => tables' = tables ]_vars

(***************************************************************************)
(* The admin panel (app/routes/admin.py): the pages and JSON endpoints     *)
(* that read the user accounts, next to the ones that write them.          *)
(***************************************************************************)
\* User.query.order_by(User.created_at.desc()): the newest user first, each
\* row as _serialize_user gives it
serialize_users ==
    LET n == Cardinality(DOMAIN user)
    IN  [i \in 1..n |-> [id |-> n + 1 - i,
                         username |-> user[n + 1 - i].username,
                         role |-> user[n + 1 - i].role,
                         is_active |-> user[n + 1 - i].is_active]]

\* _gather_metrics: total_users, active_users, admin_count
gather_metrics ==
    <<Cardinality(DOMAIN user),
      Cardinality({u \in DOMAIN user : user[u].is_active}),
      Cardinality({u \in DOMAIN user : user[u].role = ADMIN})>>

\* GET /admin/dashboard (endpoint admin_panel.dashboard)
admin_panel_dashboard(p) ==
    Read("admin_panel.dashboard", p, ADMIN_ONLY, <<gather_metrics>> \o serialize_users)

metrics(p) == Read("metrics", p, ADMIN_ONLY, <<gather_metrics>>)

list_users(p) == Read("list_users", p, ADMIN_ONLY, serialize_users)

\* the admin panel over the manager's and the employee's role, the
\* employee's is_active and one new account
PanelNext ==
    \/ \E p \in Principals : admin_panel_dashboard(p)
    \/ \E p \in Principals : metrics(p)
    \/ \E p \in Principals : list_users(p)
    \/ \E p \in Principals, n \in Usernames, e \in NewEmails :
          create_user(p, n, e, EMPLOYEE, TRUE)
    \/ \E p \in Principals, u \in {2, 3, 4}, r \in RoleNames : update_user(p, u, r)
    \/ \E p \in Principals, u \in {3, 4}, a \in BOOLEAN : update_user_status(p, u, a)

SpecPanel == Init /\ [][PanelNext]_vars

PanelOps == {"admin_panel.dashboard", "metrics", "list_users", "create_user",
             "update_user", "update_user_status"}

\* C24: an admin-panel endpoint runs its handler only for a requester whose
\* role is admin; for every other requester it returns no account data and
\* leaves the user accounts as they were.
C24_PanelAdministratorOnly ==
    [][ resp'.op \in PanelOps =>
          /\ resp'.ran => resp'.role = ADMIN
          /\ resp'.role # ADMIN
                => (~resp'.ran /\ resp'.body = <<>> /\ user' = user) ]_vars

C24_ManagerRefusedUserList ==
    /\ resp.op = "list_users"
    /\ resp.role = MANAGER
    /\ resp.status = "dashboard"
    /\ resp.body = <<>>

(***************************************************************************)
(* Order of the listings.                                                  *)
(***************************************************************************)
\* s holds rows of t, each once, in the order they have in t (the rows of
\* a table differ in their id)
KeepsOrder(s, t) == s = SelectSeq(t, LAMBDA r : r \in Rows(s))

\* list_documents without the join on the requester: Document.query, the
\* optional filter by customer_id, order_by created_at desc
unscoped_documents(customer_id) ==
    Reverse(IF customer_id # None
            THEN SelectSeq(document, LAMBDA d : d.customer_id = customer_id)
            ELSE document)

C26_ManagerChangesNoRole ==
    [][ resp'.role = MANAGER
        => \A u \in DOMAIN user : user'[u].role = user[u].role ]_vars

(***************************************************************************)
(* A user whose role is outside RoleEnum: the administrator creates the    *)
(* role in the console and gives it to the employee.                       *)
(***************************************************************************)
\* the sets of role names the routes of the application pass to role_required
RouteGates == {ALL_ROLES, ELEVATED, ADMIN_ONLY}

GuestNext ==
    \/ \E p \in Principals : RoleAdmin_create_view(p, UnknownRole)
    \/ \E p \in Principals, r \in {EMPLOYEE, UnknownRole} : update_user(p, 3, r)
    \/ \E p \in Principals, a \in {None, 3} : create_customer(p, a)
    \/ \E p \in Principals, c \in 0..MaxCustomers : upload_file(p, TRUE, c)
    \/ \E p \in Principals : create_lead(p, "a", None)
    \/ \E p \in Principals : get_customers(p)
    \/ \E p \in Principals : customers(p)
    \/ \E p \in Principals : get_leads(p)
    \/ \E p \in Principals, c \in 0..MaxCustomers : list_documents(p, c)
    \/ \E p \in Principals, roles \in RouteGates : decorated_function(p, roles)
    \/ \E p \in Principals : index(p)
    \/ \E p \in Principals, view \in SecureViews \cup AdminOnlyViews :
          index_view(p, view)

SpecGuest == Init /\ [][GuestNext]_vars

\* C27: a requester whose role name is none of admin, manager, employee is
\* refused by every role_required gate of the application and by every
\* console view, and the listings that apply the ownership scope give it
\* only rows assigned to its own id (Documents: rows of its own Customers),
\* the JSON listing of Leads included.
C27_UnknownRoleNotElevated ==
    (resp.role \notin RoleEnum \cup {"none"}) =>
        /\ resp.op \in {"decorated_function", "customers"}
              => (~resp.ran /\ resp.status = "dashboard")
        /\ resp.op \in SecureViews \cup AdminOnlyViews \cup {"index"}
              => (~resp.ran /\ resp.status = "dashboard")
        /\ resp.op \in {"get_customers", "get_leads"}
              => \A r \in Rows(resp.body) : r.assigned_user_id = resp.principal
        /\ resp.op = "list_documents"
              => \A r \in Rows(resp.body) :
                    has_customer(r) /\ customer_assigned_user_id(r) = resp.principal

\* C29: a login by a requester without a session, with the email of an
\* existing active user and the right password, gives that user a session,
\* records last_login and answers with a redirect (to the requested local
\* page or to the dashboard); a login with a wrong password or an unknown
\* email gives nobody a session.
C29_LoginEstablishesSession ==
    [][ (resp'.op = "login" /\ resp'.role = "none") =>
          /\ (resp'.ran /\ user[resp'.target].is_active)
                => /\ resp'.target \in session'
                   /\ user'[resp'.target].last_login # None
                   /\ resp'.status \in {"next", "dashboard"}
          /\ ~resp'.ran => session' = session ]_vars

(***************************************************************************)
(* GET /customers in steps, so that other requests commit in between.      *)
(* load_user reads the User row once per request; the row stays in the     *)
(* request's database session, and current_user.role is loaded from it     *)
(* once, at its first use in role_required.  The request commits nothing,  *)
(* so nothing expires the loaded row before the handler returns.           *)
(***************************************************************************)
\* current_user.role.name read again from the store at every use
current_user_role_reloaded(w) == user[inflight[w].principal].role

\* current_user.role.name of the request worker w is serving
current_user_role(w) == inflight[w].current_user.role

\* @login_required: current_user is resolved through load_user
customers_load_user(w, p) ==
    /\ inflight[w].pc = "idle"
    /\ IF ~login_required(p)
       THEN /\ resp' = Denied("customers", p, ALL_ROLES, None)
            /\ UNCHANGED <<accounts, tables, inflight>>
       ELSE /\ inflight' = [inflight EXCEPT ![w] =
                               [pc |-> "role_required", principal |-> p,
                                current_user |-> user[p], role |-> "none"]]
            /\ UNCHANGED <<accounts, tables, resp>>

\* decorated_function: the test of the role name
customers_role_required(w) ==
    /\ inflight[w].pc = "role_required"
    /\ IF current_user_role(w) \notin ALL_ROLES
       THEN /\ resp' = [op |-> "customers", principal |-> inflight[w].principal,
                        role |-> current_user_role(w), required |-> ALL_ROLES,
                        status |-> "dashboard", ran |-> FALSE,
                        target |-> None, body |-> <<>>]
            /\ inflight' = [inflight EXCEPT ![w] = Idle]
            /\ UNCHANGED <<accounts, tables>>
       ELSE /\ inflight' = [inflight EXCEPT ![w] =
                               [@ EXCEPT !.pc = "handler",
                                         !.role = current_user_role(w)]]
            /\ UNCHANGED <<accounts, tables, resp>>

\* the handler: the filter on is_admin / is_manager and the query
customers_handler(w) ==
    /\ inflight[w].pc = "handler"
    /\ resp' = [op |-> "customers", principal |-> inflight[w].principal,
                role |-> current_user_role(w), required |-> ALL_ROLES,
                status |-> "200", ran |-> TRUE, target |-> None,
                body |-> IF current_user_role(w) \in {ADMIN, MANAGER}
                         THEN customer
                         ELSE filter_by_assigned_user_id(customer,
                                                         inflight[w].principal)]
    /\ inflight' = [inflight EXCEPT ![w] = Idle]
    /\ UNCHANGED <<accounts, tables>>

RaceNext ==
    \/ \E w \in Workers, p \in Principals : customers_load_user(w, p)
    \/ \E w \in Workers : customers_role_required(w)
    \/ \E w \in Workers : customers_handler(w)
    \/ \E p \in Principals, r \in RoleEnum : update_user(p, 2, r)
    \/ \E p \in Principals, a \in {None, 3} : create_customer(p, a)

SpecRace == Init /\ [][RaceNext]_vars

Absent == ""

\* the rows other than user_id that hold the username or the email
unique_conflicts(user_id, username, email) ==
    {u \in DOMAIN user \ {user_id} :
        \/ username # Absent /\ user[u].username = username
        \/ email # Absent /\ user[u].email = email}

\* create_user up to the test for an existing username or email
create_user_check(w, p, username, email) ==
    /\ inflight[w].pc = "idle"
    /\ IF ~Admitted(p, ADMIN_ONLY)
       THEN /\ resp' = Denied("create_user", p, ADMIN_ONLY, None)
            /\ UNCHANGED <<accounts, tables, inflight>>
       ELSE IF unique_conflicts(None, username, email) # {}
       THEN /\ resp' = Response("create_user", p, ADMIN_ONLY, "409", TRUE, None, <<>>)
            /\ UNCHANGED <<accounts, tables, inflight>>
       ELSE /\ inflight' = [inflight EXCEPT ![w] =
                               [pc |-> "create_user_commit", principal |-> p,
                                user_id |-> None, username |-> username,
                                email |-> email, with_role |-> TRUE]]
            /\ UNCHANGED <<accounts, tables, resp>>

\* db.session.add(user) and the commit inside try / except IntegrityError
create_user_commit(w) ==
    LET req == inflight[w]
    IN  /\ req.pc = "create_user_commit"
        /\ inflight' = [inflight EXCEPT ![w] = Idle]
        /\ IF unique_conflicts(None, req.username, req.email) # {}
           THEN /\ resp' = Response("create_user", req.principal, ADMIN_ONLY,
                                    "400", TRUE, None, <<>>)
                /\ UNCHANGED <<accounts, tables>>
           ELSE /\ NextUserId <= MaxUsers
                /\ add_user(req.username, req.email, EMPLOYEE, TRUE)
                /\ resp' = Response("create_user", req.principal, ADMIN_ONLY,
                                    "201", TRUE, NextUserId, <<>>)
                /\ UNCHANGED <<user_role, session, tables>>

\* update_user up to the two tests "already in use"
update_user_check(w, p, user_id, username, email, with_role) ==
    /\ inflight[w].pc = "idle"
    /\ IF ~Admitted(p, ADMIN_ONLY)
       THEN /\ resp' = Denied("update_user", p, ADMIN_ONLY, user_id)
            /\ UNCHANGED <<accounts, tables, inflight>>
       ELSE IF user_id \notin DOMAIN user
       THEN /\ resp' = Response("update_user", p, ADMIN_ONLY, "404", TRUE, user_id, <<>>)
            /\ UNCHANGED <<accounts, tables, inflight>>
       ELSE IF \/ username # Absent /\ username # user[user_id].username
                  /\ filter_by_username(username) # {}
               \/ email # Absent /\ email # user[user_id].email
                  /\ filter_by_email(email) # {}
       THEN /\ resp' = Response("update_user", p, ADMIN_ONLY, "409", TRUE, user_id, <<>>)
            /\ UNCHANGED <<accounts, tables, inflight>>
       ELSE /\ inflight' = [inflight EXCEPT ![w] =
                               [pc |-> "update_user_commit", principal |-> p,
                                user_id |-> user_id, username |-> username,
                                email |-> email, with_role |-> with_role]]
            /\ UNCHANGED <<accounts, tables, resp>>

\* the assignments and the write.  With a role in the payload the query for
\* the role flushes the changed row first, outside the try: an IntegrityError
\* there is answered by handle_exception.  Without one the row is first
\* written by the commit, inside the try.
update_user_commit(w) ==
    LET req == inflight[w]
    IN  /\ req.pc = "update_user_commit"
        /\ inflight' = [inflight EXCEPT ![w] = Idle]
        /\ IF unique_conflicts(req.user_id, req.username, req.email) # {}
           THEN /\ resp' = Response("update_user", req.principal, ADMIN_ONLY,
                                    IF req.with_role THEN "500" ELSE "400",
                                    TRUE, req.user_id, <<>>)
                /\ UNCHANGED <<accounts, tables>>
           ELSE /\ user' = [user EXCEPT ![req.user_id] =
                      [@ EXCEPT !.username = IF req.username # Absent
                                             THEN req.username ELSE @,
                                !.email = IF req.email # Absent
                                          THEN req.email ELSE @,
                                !.role = IF req.with_role THEN EMPLOYEE ELSE @]]
                /\ resp' = Response("update_user", req.principal, ADMIN_ONLY,
                                    "200", TRUE, req.user_id, <<>>)
                /\ UNCHANGED <<user_role, session, tables>>

UniqueNext ==
    \/ \E w \in Workers, p \in Principals, n \in Usernames, e \in NewEmails :
          create_user_check(w, p, n, e)
    \/ \E w \in Workers : create_user_commit(w)
    \/ \E w \in Workers, p \in Principals, u \in {3, 4},
          n \in {Absent, "new"}, e \in {Absent, "new@crm.com"},
          with_role \in BOOLEAN :
          update_user_check(w, p, u, n, e, with_role)
    \/ \E w \in Workers : update_user_commit(w)

SpecUnique == Init /\ [][UniqueNext]_vars

\* C28: no step leads to a state where two users share a username or an
\* email; and a create_user or update_user request whose write meets a
\* username or email that another request has committed meanwhile answers
\* 409 or 400 and leaves the users as they were.
C28_UsernamesEmailsUnique ==
    [][ /\ \A u, v \in DOMAIN user' :
              (user'[u].username = user'[v].username
                  \/ user'[u].email = user'[v].email) => u = v
        /\ \A w \in Workers :
             ( /\ inflight[w].pc \in {"create_user_commit", "update_user_commit"}
               /\ inflight'[w].pc = "idle"
               /\ unique_conflicts(inflight[w].user_id, inflight[w].username,
                                   inflight[w].email) # {} )
             => (resp'.status \in {"409", "400"} /\ user' = user) ]_vars

====
